---------------------------- MODULE Spec2Model ----------------------------
(***************************************************************************)
(* A model of two parts of snarkVM:                                        *)
(*   - circuit/types/field/src/div.rs: division of circuit field elements, *)
(*     its resource-count predicate and its output-mode predicate, run     *)
(*     against the constraint backend (Environment);                       *)
(*   - synthesizer/src/process/stack/execution/mod.rs: the Execution       *)
(*     container of transitions.                                           *)
(* Spec is the circuit part, SpecExecution the container part.             *)
(***************************************************************************)
EXTENDS Integers, Sequences, FiniteSets, TLC

VARIABLES
    pc,         \* "idle" before the operands exist, "ready" once they do
    env,        \* the backend: tallies of the whole run and its satisfaction flag
    a,          \* the dividend, Field::new(mode_a, first)
    b,          \* the divisor, Field::new(mode_b, second)
    outcomes,   \* per division form, what the form did on (a, b) in its own scope
    predicted,  \* what count() and output_mode() say for the case (a, b)
    checks,     \* how many operand pairs this run has made on the backend so far
    execution,  \* the Execution: its edition and its transitions, in map order
    ret,        \* the last Execution operation, its argument and what it returned
    before      \* the transitions as they were before the last Execution operation

circuitVars == <<pc, env, a, b, outcomes, predicted, checks>>
executionVars == <<execution, ret, before>>
vars == <<pc, env, a, b, outcomes, predicted, checks, execution, ret, before>>

---------------------------------------------------------------------------
(* Bounds of the model. *)

\* The native field is the prime field of order Primes[FieldPrimeIndex].
FieldPrimeIndex == 3

Primes == <<2, 3, 5, 7, 11, 13, 17, 19, 23>>

Modulus == Primes[FieldPrimeIndex]

FieldValues == 0 .. (Modulus - 1)

\* The number of operand pairs one run makes and divides on the same backend.
MaxChecks == 2

\* Transition IDs are 1 .. NumTransitionIDs.
NumTransitionIDs == 3

\* The longest list of transitions handed to Execution::from.
MaxFromLen == 2

---------------------------------------------------------------------------
(* The native (console) field. *)

FMul(x, y) == (x * y) % Modulus

RECURSIVE FPow(_, _)
FPow(x, n) == IF n = 0 THEN 1 % Modulus ELSE FMul(x, FPow(x, n - 1))

\* Native inversion of a non-zero x, by Fermat's little theorem; callers test
\* for zero first, where the native inverse is an error.
FInverse(x) == FPow(x, Modulus - 2)

\* console::Field division: first / second == first * second^{-1}.
FDiv(x, y) == FMul(x, FInverse(y))

---------------------------------------------------------------------------
(* Modes, counts and circuit field elements. *)

Constant == "Constant"
Public == "Public"
Private == "Private"
Modes == {Constant, Public, Private}

\* Count::is(num_constants, num_public, num_private, num_constraints)
CountIs(c, pu, pr, cs) ==
    [constants |-> c, public |-> pu, private |-> pr, constraints |-> cs]

\* A circuit field element is a linear combination over at most one variable:
\* var is the mode of that variable (Constant: no variable term), coeff the
\* variable's coefficient and value the native value of the whole combination.
Fields == [var : Modes, coeff : FieldValues, value : FieldValues]

NoField == [var |-> "None", coeff |-> 0, value |-> 0]

is_constant(f) == f.var = Constant

\* The mode of a linear combination: Constant without a variable term, Public
\* for exactly one public variable with coefficient one, Private otherwise.
eject_mode(f) ==
    IF f.var = Constant THEN Constant
    ELSE IF f.var = Public /\ f.coeff = 1 THEN Public
    ELSE Private

eject_value(f) == f.value

\* The backend after allocating one variable of the given mode.
new_variable(mode, E) ==
    CASE mode = Constant -> [E EXCEPT !.constants = @ + 1]
      [] mode = Public   -> [E EXCEPT !.public = @ + 1]
      [] OTHER           -> [E EXCEPT !.private = @ + 1]

\* Field::new(mode, value): one fresh variable of that mode.
FieldNew(mode, value, E) ==
    [out |-> [var |-> mode, coeff |-> IF mode = Constant THEN 0 ELSE 1, value |-> value],
     env |-> new_variable(mode, E)]

\* witness!(|operands| value): Constant when every operand is constant,
\* Private otherwise.
witness_mode(operands) ==
    IF \A f \in operands : is_constant(f) THEN Constant ELSE Private

\* E::enforce(|| (x, y, z)): registers x * y == z. A constraint among constants
\* only is not registered; a registered one that does not hold clears the flag.
enforce(x, y, z, E) ==
    IF is_constant(x) /\ is_constant(y) /\ is_constant(z)
    THEN E
    ELSE [E EXCEPT !.constraints = @ + 1,
                   !.satisfied = @ /\ (FMul(x.value, y.value) = z.value)]


\* Field::is_zero: a circuit Boolean. For a constant it is computed natively
\* (one constant); otherwise it costs two private variables (the indicator
\* and the inverse multiplier) and three constraints, all of which the
\* honestly computed witnesses satisfy.
is_zero(f, E) ==
    IF is_constant(f)
    THEN [out |-> [constant |-> TRUE, value |-> (f.value = 0)],
          env |-> new_variable(Constant, E)]
    ELSE [out |-> [constant |-> FALSE, value |-> (f.value = 0)],
          env |-> [E EXCEPT !.private = @ + 2, !.constraints = @ + 3]]

\* Boolean negation: a linear combination, nothing is allocated.
not(bool) == [bool EXCEPT !.value = ~@]

\* E::assert(boolean): one constraint, violated when the boolean is false.
assert(bool, E) ==
    IF bool.constant
    THEN E
    ELSE [E EXCEPT !.constraints = @ + 1, !.satisfied = @ /\ bool.value]

\* Field::inverse: the inverse as a witness, bound by self * inverse == 1.
inverse(f, E) ==
    LET w == FieldNew(witness_mode({f}), IF f.value = 0 THEN 0 ELSE FInverse(f.value), E)
        one == [var |-> Constant, coeff |-> 0, value |-> 1 % Modulus]
    IN  [out |-> w.out, env |-> enforce(f, w.out, one, w.env)]

\* A linear combination scaled by a native coefficient.
scale(f, c) ==
    IF is_constant(f) \/ FMul(f.coeff, c) = 0
    THEN [var |-> Constant, coeff |-> 0, value |-> FMul(f.value, c)]
    ELSE [var |-> f.var, coeff |-> FMul(f.coeff, c), value |-> FMul(f.value, c)]

\* Field::mul_assign: by a constant the combination is scaled, for free; two
\* variables cost a product witness and one constraint.
mul_assign(self, other, E) ==
    IF is_constant(other) THEN [out |-> scale(self, other.value), env |-> E]
    ELSE IF is_constant(self) THEN [out |-> scale(other, self.value), env |-> E]
    ELSE LET w == FieldNew(Private, FMul(self.value, other.value), E)
         IN  [out |-> w.out, env |-> enforce(self, other, w.out, w.env)]

---------------------------------------------------------------------------
(* div.rs: the division operator. Every form returns                       *)
(*   halted: whether E::halt was called, self: the left operand after the  *)
(*   call, other: the divisor after the call, out: the returned field      *)
(*   element (NoField for the in-place forms, which return nothing), env:  *)
(*   the backend after the call.                                           *)

\* Network::halt / Environment::halt: panics; nothing is returned.
halt(self, other, E) ==
    [halted |-> TRUE, self |-> self, other |-> other, out |-> NoField, env |-> E]

\* div_assign multiplying by the divisor itself instead of its inverse.
div_assign_no_inverse(self, other, E) ==
    IF is_constant(other)
    THEN IF eject_value(other) = 0
         THEN halt(self, other, E)
         ELSE LET inv == inverse(other, E)
                  prod == mul_assign(self, other, inv.env)
              IN  [halted |-> FALSE, self |-> prod.out, other |-> other,
                   out |-> NoField, env |-> prod.env]
    ELSE LET zero == is_zero(other, E)
             e1 == assert(not(zero.out), zero.env)
             quotient == FieldNew(witness_mode({self, other}),
                                  IF other.value = 0 THEN self.value
                                  ELSE FMul(self.value, other.value),
                                  e1)
             e2 == enforce(quotient.out, other, self, quotient.env)
         IN  [halted |-> FALSE, self |-> quotient.out, other |-> other,
              out |-> NoField, env |-> e2]

\* div_assign without the guard on a constant zero divisor.
div_assign_no_zero_check(self, other, E) ==
    IF is_constant(other)
    THEN LET inv == inverse(other, E)
             prod == mul_assign(self, inv.out, inv.env)
         IN  [halted |-> FALSE, self |-> prod.out, other |-> other,
              out |-> NoField, env |-> prod.env]
    ELSE LET zero == is_zero(other, E)
             e1 == assert(not(zero.out), zero.env)
             quotient == FieldNew(witness_mode({self, other}),
                                  IF other.value = 0 THEN self.value
                                  ELSE FDiv(self.value, other.value),
                                  e1)
             e2 == enforce(quotient.out, other, self, quotient.env)
         IN  [halted |-> FALSE, self |-> quotient.out, other |-> other,
              out |-> NoField, env |-> e2]

\* div_assign without E::assert(!other.is_zero()).
div_assign_no_assert(self, other, E) ==
    IF is_constant(other)
    THEN IF eject_value(other) = 0
         THEN halt(self, other, E)
         ELSE LET inv == inverse(other, E)
                  prod == mul_assign(self, inv.out, inv.env)
              IN  [halted |-> FALSE, self |-> prod.out, other |-> other,
                   out |-> NoField, env |-> prod.env]
    ELSE LET quotient == FieldNew(witness_mode({self, other}),
                                  IF other.value = 0 THEN self.value
                                  ELSE FDiv(self.value, other.value),
                                  E)
             e2 == enforce(quotient.out, other, self, quotient.env)
         IN  [halted |-> FALSE, self |-> quotient.out, other |-> other,
              out |-> NoField, env |-> e2]

\* div_assign halting on every divisor whose native value is zero, whatever
\* its mode.
div_assign_halts_on_any_zero(self, other, E) ==
    IF eject_value(other) = 0
    THEN halt(self, other, E)
    ELSE IF is_constant(other)
    THEN LET inv == inverse(other, E)
             prod == mul_assign(self, inv.out, inv.env)
         IN  [halted |-> FALSE, self |-> prod.out, other |-> other,
              out |-> NoField, env |-> prod.env]
    ELSE LET zero == is_zero(other, E)
             e1 == assert(not(zero.out), zero.env)
             quotient == FieldNew(witness_mode({self, other}),
                                  FDiv(self.value, other.value), e1)
             e2 == enforce(quotient.out, other, self, quotient.env)
         IN  [halted |-> FALSE, self |-> quotient.out, other |-> other,
              out |-> NoField, env |-> e2]

\* div_assign whose quotient witness falls back to zero, not to self, for a
\* divisor of native value zero.
div_assign_zero_fallback(self, other, E) ==
    IF is_constant(other)
    THEN IF eject_value(other) = 0
         THEN halt(self, other, E)
         ELSE LET inv == inverse(other, E)
                  prod == mul_assign(self, inv.out, inv.env)
              IN  [halted |-> FALSE, self |-> prod.out, other |-> other,
                   out |-> NoField, env |-> prod.env]
    ELSE LET zero == is_zero(other, E)
             e1 == assert(not(zero.out), zero.env)
             quotient == FieldNew(witness_mode({self, other}),
                                  IF other.value = 0 THEN 0
                                  ELSE FDiv(self.value, other.value),
                                  e1)
             e2 == enforce(quotient.out, other, self, quotient.env)
         IN  [halted |-> FALSE, self |-> quotient.out, other |-> other,
              out |-> NoField, env |-> e2]

\* impl DivAssign<&Self> for Field<E>
div_assign(self, other, E) ==
    IF is_constant(other)
    THEN IF eject_value(other) = 0
         THEN halt(self, other, E)
         ELSE LET inv == inverse(other, E)
                  prod == mul_assign(self, inv.out, inv.env)
              IN  [halted |-> FALSE, self |-> prod.out, other |-> other,
                   out |-> NoField, env |-> prod.env]
    ELSE LET zero == is_zero(other, E)
             e1 == assert(not(zero.out), zero.env)
             quotient == FieldNew(witness_mode({self, other}),
                                  IF other.value = 0 THEN self.value
                                  ELSE FDiv(self.value, other.value),
                                  e1)
             e2 == enforce(quotient.out, other, self, quotient.env)
         IN  [halted |-> FALSE, self |-> quotient.out, other |-> other,
              out |-> NoField, env |-> e2]

\* &self / other dividing self itself in place instead of a clone of it.
div_ref_ref_no_clone(self, other, E) ==
    LET output == div_assign(self, other, E)
    IN  [output EXCEPT !.out = IF output.halted THEN NoField ELSE output.self]

\* impl Div<&Field<E>> for &Field<E>: divides a clone of self in place.
div_ref_ref(self, other, E) ==
    LET output == div_assign(self, other, E)
    IN  [output EXCEPT !.self = self, !.out = IF output.halted THEN NoField ELSE output.self]

\* impl Div<&Field<E>> for Field<E>: &self / other
div_val_ref(self, other, E) == div_ref_ref(self, other, E)

\* self / &other with the operands the wrong way round.
div_ref_val_swapped(self, other, E) == div_ref_ref(other, self, E)

\* impl Div<Field<E>> for &Field<E>: self / &other
div_ref_val(self, other, E) == div_ref_ref(self, other, E)

\* impl Div<Field<E>> for Field<E>: self / &other
div_val_val(self, other, E) == div_val_ref(self, other, E)

\* impl DivAssign<Self> for Field<E>: *self /= &other
div_assign_val(self, other, E) == div_assign(self, other, E)

\* count keyed on the dividend's mode instead of the divisor's.
count_swapped(mode_a, mode_b) ==
    IF (mode_a = Constant /\ mode_b = Constant) \/ mode_a = Constant
    THEN CountIs(1, 0, 0, 0)
    ELSE CountIs(0, 0, 3, 5)

\* count charging the constant case whenever either operand is constant.
count_either_constant(mode_a, mode_b) ==
    IF mode_a = Constant \/ mode_b = Constant
    THEN CountIs(1, 0, 0, 0)
    ELSE CountIs(0, 0, 3, 5)

\* impl Metrics<dyn Div> for Field<E>
count(mode_a, mode_b) ==
    IF (mode_a = Constant /\ mode_b = Constant) \/ mode_b = Constant
    THEN CountIs(1, 0, 0, 0)
    ELSE CountIs(0, 0, 3, 5)

\* CircuitType::from(field): the mode, and for a constant its value.
CircuitType(f) ==
    [mode |-> eject_mode(f), constant |-> is_constant(f), value |-> f.value]

\* output_mode that does not look at the constant divisor's value.
output_mode_ignores_value(case0, case1) ==
    IF case0.mode = Constant /\ case1.mode = Constant THEN Constant
    ELSE IF case0.mode = Public /\ case1.mode = Constant THEN Public
    ELSE Private

\* output_mode that keeps a quotient of two public elements public.
output_mode_public_pair(case0, case1) ==
    IF case0.mode = Constant /\ case1.mode = Constant THEN Constant
    ELSE IF case0.mode = Public /\ case1.mode = Constant
         THEN IF case1.constant
              THEN IF case1.value = 1 % Modulus THEN Public ELSE Private
              ELSE "Halt"
    ELSE IF case0.mode = Public /\ case1.mode = Public THEN Public
    ELSE Private

\* impl OutputMode<dyn Div> for Field<E>; "Halt" stands for E::halt.
output_mode(case0, case1) ==
    IF case0.mode = Constant /\ case1.mode = Constant THEN Constant
    ELSE IF case0.mode = Public /\ case1.mode = Constant
         THEN IF case1.constant
              THEN IF case1.value = 1 % Modulus THEN Public ELSE Private
              ELSE "Halt"
    ELSE Private

---------------------------------------------------------------------------
(* execution/mod.rs: the Execution container. A transition's ID commits to *)
(* its content, so a transition is represented by its ID; the IndexMap is  *)
(* the sequence of its entries in map order.                               *)

\* N::EDITION
EDITION == 0

\* The width of usize; on wider targets the wrapped index is larger still.
USIZE_BITS == 16

USIZE_MAX == 2 ^ USIZE_BITS - 1

TransitionIDs == 1 .. NumTransitionIDs

None == 0

Range(seq) == {seq[i] : i \in 1 .. Len(seq)}

\* IndexMap::insert: a new key is appended; an existing key keeps its place
\* and only its value is replaced.
IndexMapInsert(map, id) ==
    IF id \in Range(map) THEN map ELSE Append(map, id)

\* IndexMap::get_index
IndexMapGetIndex(map, index) ==
    IF index < Len(map) THEN map[index + 1] ELSE None

\* transitions.into_iter().map(|t| (*t.id(), t)).collect()
RECURSIVE Collect(_)
Collect(list) ==
    IF list = <<>> THEN <<>>
    ELSE IndexMapInsert(Collect(SubSeq(list, 1, Len(list) - 1)), list[Len(list)])

Ok(value) == [kind |-> "ok", value |-> value]
Err == [kind |-> "err", value |-> None]
Panic == [kind |-> "panic", value |-> None]

\* Execution::new
new == [edition |-> EDITION, transitions |-> <<>>]

\* Execution::from: Ok(the execution) or Err
from(edition, list) ==
    IF list = <<>> THEN Err
    ELSE IF edition = EDITION
         THEN Ok([edition |-> edition, transitions |-> Collect(list)])
         ELSE Err

\* Execution::len
len(self) == Len(self.transitions)

\* Execution::get
get(self, index) ==
    LET found == IndexMapGetIndex(self.transitions, index)
    IN  IF found # None THEN Ok(found) ELSE Err

\* Execution::peek: self.get(self.len() - 1). The subtraction is on usize:
\* at len() == 0 it panics in a build with overflow checks and wraps to
\* usize::MAX in one without.
peek(self, overflow_checks) ==
    IF len(self) = 0 /\ overflow_checks
    THEN Panic
    ELSE get(self, (len(self) - 1) % (USIZE_MAX + 1))

\* Execution::push
push(self, id) ==
    [self EXCEPT !.transitions = IndexMapInsert(@, id)]

\* pop reading the last entry without removing it.
pop_without_removal(self) ==
    IF len(self) = 0
    THEN [result |-> Err, self |-> self]
    ELSE [result |-> Ok(self.transitions[len(self)]), self |-> self]

\* Execution::pop: the result and the execution after the call.
pop(self) ==
    IF len(self) = 0
    THEN [result |-> Err, self |-> self]
    ELSE [result |-> Ok(self.transitions[len(self)]),
          self |-> [self EXCEPT !.transitions = SubSeq(@, 1, len(self) - 1)]]

NoArgs == [edition |-> 0, list |-> <<>>, index |-> 0]

Returned(op, args, result) ==
    [op |-> op, args |-> args, kind |-> result.kind,
     value |-> IF op = "from" THEN None ELSE result.value]

InitExecutionVars ==
    /\ execution = new
    /\ ret = Returned("new", NoArgs, Ok(None))
    /\ before = <<>>

---------------------------------------------------------------------------
(* The circuit state machine: a run is a sequence of checks on one backend, *)
(* which is never reset in between. A check makes a pair of operands,       *)
(* divides them once, in one of the six forms and in a scope of its own,    *)
(* evaluates the predicates for the case, and returns; the next check       *)
(* works on the backend as the earlier ones left it.                        *)

Forms == {"val_val", "val_ref", "ref_val", "ref_ref", "assign_val", "assign_ref"}

InPlace == {"assign_val", "assign_ref"}

\* The backend before the first check: the empty constraint system.
EmptyEnv == [constants |-> 0, public |-> 0, private |-> 0, constraints |-> 0,
             satisfied |-> TRUE]

NoOutcome == [kind |-> "none", mode |-> "None", value |-> 0,
              delta |-> CountIs(0, 0, 0, 0), satisfied |-> TRUE,
              left |-> NoField, right |-> NoField]

NoPrediction == [count |-> CountIs(0, 0, 0, 0), mode |-> "None"]

\* The tallies added between two backend states.
Delta(E0, E1) ==
    CountIs(E1.constants - E0.constants, E1.public - E0.public,
            E1.private - E0.private, E1.constraints - E0.constraints)

\* The form as the caller writes it.
apply(form, self, other, E) ==
    CASE form = "val_val"    -> div_val_val(self, other, E)
      [] form = "val_ref"    -> div_val_ref(self, other, E)
      [] form = "ref_val"    -> div_ref_val(self, other, E)
      [] form = "ref_ref"    -> div_ref_ref(self, other, E)
      [] form = "assign_val" -> div_assign_val(self, other, E)
      [] OTHER               -> div_assign(self, other, E)

\* What a caller observes of one division run in a fresh scope: the result
\* (the returned element, or the left operand for an in-place form), the
\* tallies the scope added, the scope's satisfaction flag, and the operands
\* as they are after the call.
Observe(form, r, E0) ==
    IF r.halted
    THEN [NoOutcome EXCEPT !.kind = "halt", !.left = r.self, !.right = r.other]
    ELSE LET result == IF form \in InPlace THEN r.self ELSE r.out
         IN  [kind |-> "done", mode |-> eject_mode(result),
              value |-> eject_value(result), delta |-> Delta(E0, r.env),
              satisfied |-> r.env.satisfied, left |-> r.self, right |-> r.other]


InitCircuitVars ==
    /\ pc = "idle"
    /\ env = EmptyEnv
    /\ a = NoField
    /\ b = NoField
    /\ outcomes = [f \in Forms |-> NoOutcome]
    /\ predicted = NoPrediction
    /\ checks = 0

Init == InitCircuitVars /\ InitExecutionVars

\* let a = Field::new(mode_a, first); let b = Field::new(mode_b, second);
NewOperands(mode_a, first, mode_b, second) ==
    /\ pc = "idle"
    /\ checks < MaxChecks
    /\ checks' = checks + 1
    /\ LET fa == FieldNew(mode_a, first, env)
           fb == FieldNew(mode_b, second, fa.env)
       IN  /\ a' = fa.out
           /\ b' = fb.out
           /\ env' = fb.env
    /\ pc' = "ready"
    /\ UNCHANGED <<outcomes, predicted, execution, ret, before>>

\* Circuit::scope(name, || a / b) in one of its six forms (the in-place forms
\* on a clone of a, as the callers of div.rs write them). A check divides its
\* operands once.
Divide(form) ==
    /\ pc = "ready"
    /\ \A f \in Forms : outcomes[f] = NoOutcome
    /\ LET E0 == [env EXCEPT !.satisfied = TRUE]
           r == apply(form, a, b, E0)
       IN  /\ outcomes' = [outcomes EXCEPT ![form] = Observe(form, r, E0)]
           /\ env' = [r.env EXCEPT !.satisfied = env.satisfied /\ r.env.satisfied]
    /\ UNCHANGED <<pc, a, b, predicted, checks, execution, ret, before>>

\* count(&(a.eject_mode(), b.eject_mode())) and
\* output_mode(&(CircuitType::from(a), CircuitType::from(b)))
Predict ==
    /\ pc = "ready"
    /\ predicted = NoPrediction
    /\ predicted' = [count |-> count(eject_mode(a), eject_mode(b)),
                     mode |-> output_mode(CircuitType(a), CircuitType(b))]
    /\ UNCHANGED <<pc, env, a, b, outcomes, checks, execution, ret, before>>

\* The check returns after its division: its operands are dropped, and the
\* backend keeps every variable and constraint registered so far.
EndCheck ==
    /\ pc = "ready"
    /\ \E f \in Forms : outcomes[f] # NoOutcome
    /\ pc' = "idle"
    /\ a' = NoField
    /\ b' = NoField
    /\ outcomes' = [f \in Forms |-> NoOutcome]
    /\ predicted' = NoPrediction
    /\ UNCHANGED <<env, checks, execution, ret, before>>

Next ==
    \/ \E mode_a \in Modes, mode_b \in Modes, first \in FieldValues, second \in FieldValues :
          NewOperands(mode_a, first, mode_b, second)
    \/ \E form \in Forms : Divide(form)
    \/ Predict
    \/ EndCheck

Spec == Init /\ [][Next]_vars

---------------------------------------------------------------------------
(* Properties of the division operator. *)

Ran(form) == outcomes[form] # NoOutcome

Predicted == predicted # NoPrediction

\* C1: for a non-zero divisor, in every mode combination, the division
\* returns and the value ejected from its result is the native quotient a / b:
\* the one field value q with q * b == a.
C1_QuotientIsNative ==
    \A form \in Forms :
        (Ran(form) /\ eject_value(b) # 0) =>
            /\ outcomes[form].kind = "done"
            /\ FMul(outcomes[form].value, eject_value(b)) = eject_value(a)
            /\ outcomes[form].value = FDiv(eject_value(a), eject_value(b))

C1_Witness ==
    /\ outcomes["ref_ref"].kind = "done"
    /\ eject_mode(a) = Public /\ eject_mode(b) = Constant
    /\ eject_value(a) > 1 /\ eject_value(b) > 1
    /\ outcomes["ref_ref"].value # eject_value(a)

\* C2: a division by a Constant divisor of value zero halts, whatever the
\* dividend's mode and value, and returns no quotient.
C2_ConstantZeroHalts ==
    \A form \in Forms :
        (Ran(form) /\ eject_mode(b) = Constant /\ eject_value(b) = 0) =>
            /\ outcomes[form].kind = "halt"
            /\ outcomes[form].mode = "None"

C2_Witness ==
    /\ eject_mode(a) = Private /\ eject_value(a) # 0
    /\ eject_mode(b) = Constant /\ eject_value(b) = 0
    /\ outcomes["val_val"].kind = "halt"

\* C3: a division by a Public or Private divisor of value zero returns
\* without halting, registers its constraints, and leaves the scope's
\* constraint system not satisfied.
C3_VariableZeroUnsatisfied ==
    \A form \in Forms :
        (Ran(form) /\ eject_mode(b) # Constant /\ eject_value(b) = 0) =>
            /\ outcomes[form].kind = "done"
            /\ outcomes[form].delta.constraints > 0
            /\ ~outcomes[form].satisfied

C3_Witness ==
    /\ eject_mode(b) = Public /\ eject_value(b) = 0
    /\ eject_value(a) = 0
    /\ outcomes["ref_ref"].kind = "done"
    /\ ~outcomes["ref_ref"].satisfied

\* C4: for a non-zero divisor, the Count predicted for the mode pair is
\* exactly what one division added to the backend's tallies in its scope.
C4_CountMatchesBackend ==
    \A form \in Forms :
        (Predicted /\ outcomes[form].kind = "done" /\ eject_value(b) # 0) =>
            predicted.count = outcomes[form].delta

C4_Witness ==
    /\ Predicted
    /\ eject_mode(a) = Constant /\ eject_mode(b) = Private /\ eject_value(b) # 0
    /\ outcomes["ref_ref"].kind = "done"
    /\ outcomes["ref_ref"].delta = CountIs(0, 0, 3, 5)

\* C5 as stated: Count(1,0,0,0) whenever either operand is Constant,
\* Count(0,0,3,5) when both are Public or Private.
C5_Original ==
    Predicted =>
        predicted.count =
            IF eject_mode(a) = Constant \/ eject_mode(b) = Constant
            THEN CountIs(1, 0, 0, 0)
            ELSE CountIs(0, 0, 3, 5)

\* C5, amended: the count predicate returns Count(1,0,0,0) for every mode
\* pair whose divisor is Constant and Count(0,0,3,5) for every mode pair whose
\* divisor is Public or Private, a Constant dividend included.
C5_CountByDivisorMode ==
    Predicted =>
        predicted.count =
            IF eject_mode(b) = Constant
            THEN CountIs(1, 0, 0, 0)
            ELSE CountIs(0, 0, 3, 5)

C5_Witness ==
    /\ Predicted
    /\ eject_mode(a) = Constant /\ eject_mode(b) = Public
    /\ predicted.count = CountIs(0, 0, 3, 5)

\* C6: for every mode pair and every non-zero divisor (one included), the
\* predicted output mode is the mode of the element the division produced.
C6_ModeMatchesResult ==
    \A form \in Forms :
        (Predicted /\ outcomes[form].kind = "done" /\ eject_value(b) # 0) =>
            predicted.mode = outcomes[form].mode

C6_Witness ==
    /\ Predicted
    /\ eject_mode(a) = Public /\ eject_mode(b) = Constant /\ eject_value(b) = 1
    /\ outcomes["ref_ref"].kind = "done"
    /\ outcomes["ref_ref"].mode = Public

\* C7: the output-mode predicate maps (Constant, Constant) to Constant,
\* (Public, Constant) to Public exactly when the divisor is one and to
\* Private otherwise, and every other combination to Private.
C7_OutputModeTable ==
    Predicted =>
        predicted.mode =
            IF eject_mode(a) = Constant /\ eject_mode(b) = Constant THEN Constant
            ELSE IF eject_mode(a) = Public /\ eject_mode(b) = Constant
                    /\ eject_value(b) = 1
                 THEN Public
            ELSE Private

C7_Witness ==
    /\ Predicted
    /\ eject_mode(a) = Private /\ eject_mode(b) = Constant /\ eject_value(b) = 1
    /\ predicted.mode = Private

\* What the forms are compared on: everything a caller observes but the
\* operands after the call (the in-place forms replace the left one).
SeenOf(outcome) ==
    [kind |-> outcome.kind, mode |-> outcome.mode, value |-> outcome.value,
     delta |-> outcome.delta, satisfied |-> outcome.satisfied]

Seen(form) == SeenOf(outcomes[form])

\* What form g observes when it divides the current operands in a fresh
\* scope on the backend as it is now.
Again(g) ==
    LET E0 == [env EXCEPT !.satisfied = TRUE]
    IN  Observe(g, apply(g, a, b, E0), E0)

\* C8: the four binary forms and the two in-place forms yield the same
\* outcome on the same operands (the same result value and mode, tally change
\* and satisfaction flag, or a halt in all): what the form that ran observed
\* is what each of the six forms observes on these operands. For two
\* Constants with a non-zero divisor the result is the native quotient.
C8_FormsAgree ==
    /\ \A f \in Forms, g \in Forms : Ran(f) => SeenOf(Again(g)) = Seen(f)
    /\ \A f \in Forms :
          (Ran(f) /\ eject_mode(a) = Constant /\ eject_mode(b) = Constant
                  /\ eject_value(b) # 0) =>
              /\ outcomes[f].kind = "done"
              /\ FMul(outcomes[f].value, eject_value(b)) = eject_value(a)

C8_Witness ==
    /\ outcomes["assign_val"].kind = "done"
    /\ checks = 2
    /\ eject_mode(a) = Private /\ eject_mode(b) = Public
    /\ eject_value(a) > 1 /\ eject_value(b) > 1
    /\ eject_value(a) # eject_value(b)

\* One step of the run, as C11 constrains it.
C11_Step ==
    /\ \A form \in Forms :
          (outcomes[form] = NoOutcome /\ outcomes'[form] # NoOutcome) =>
              /\ eject_value(b) # 0 =>
                    /\ outcomes'[form].kind = "done"
                    /\ outcomes'[form].satisfied
                    /\ env'.satisfied = env.satisfied
              /\ outcomes'[form].kind = "halt" =>
                    /\ eject_mode(b) = Constant /\ eject_value(b) = 0
                    /\ env' = env
              /\ ~outcomes'[form].satisfied =>
                    /\ eject_mode(b) # Constant /\ eject_value(b) = 0
                    /\ outcomes'[form].kind = "done"
    /\ (env.satisfied /\ ~env'.satisfied) =>
          /\ pc = "ready"
          /\ eject_mode(b) # Constant /\ eject_value(b) = 0

\* C11: the two failure classes stay apart. With a non-zero divisor a
\* division, in any mode combination, neither halts nor turns a satisfied
\* constraint system (its scope's, or the backend's as earlier divisions left
\* it) into an unsatisfied one; a halt happens only for a Constant zero
\* divisor, and the satisfaction flag is cleared only by a division by a
\* Public or Private zero divisor.
C11_FailureClassesApart == [][C11_Step]_vars

C11_Witness ==
    /\ checks = 2
    /\ ~env.satisfied
    /\ eject_mode(a) = Public /\ eject_mode(b) = Public
    /\ eject_value(b) > 1
    /\ outcomes["ref_ref"].kind = "done"
    /\ outcomes["ref_ref"].satisfied

\* C12: the binary division by reference, &a / &b, leaves both operands as
\* they were, in mode and in native value, and returns its result as a new
\* element; only the in-place forms replace the left operand (by the
\* quotient), and they never change the divisor.
C12_OperandsKept ==
    /\ Ran("ref_ref") =>
          /\ outcomes["ref_ref"].left = a
          /\ outcomes["ref_ref"].right = b
    /\ \A form \in InPlace :
          Ran(form) =>
              /\ outcomes[form].right = b
              /\ outcomes[form].kind = "done" =>
                    /\ eject_mode(outcomes[form].left) = outcomes[form].mode
                    /\ eject_value(outcomes[form].left) = outcomes[form].value

C12_Witness ==
    /\ outcomes["ref_ref"].kind = "done"
    /\ eject_mode(a) = Public
    /\ outcomes["ref_ref"].mode = Private
    /\ outcomes["ref_ref"].value # eject_value(a)
    /\ outcomes["ref_ref"].left = a
    /\ outcomes["ref_ref"].right = b

\* C13: for a Public or Private divisor the quotient witness has the native
\* value self / other when the divisor's native value is not zero, and the
\* dividend's own native value when it is zero: the value ejected from the
\* result of a division by a Public or Private zero is that of the dividend.
C13_QuotientWitnessValue ==
    \A form \in Forms :
        (Ran(form) /\ eject_mode(b) # Constant) =>
            /\ outcomes[form].kind = "done"
            /\ eject_value(b) # 0 =>
                  /\ FMul(outcomes[form].value, eject_value(b)) = eject_value(a)
                  /\ outcomes[form].value = FDiv(eject_value(a), eject_value(b))
            /\ eject_value(b) = 0 => outcomes[form].value = eject_value(a)

C13_Witness ==
    /\ eject_mode(b) = Private /\ eject_value(b) = 0
    /\ eject_mode(a) = Constant /\ eject_value(a) > 1
    /\ outcomes["val_ref"].kind = "done"
    /\ outcomes["val_ref"].value = eject_value(a)

---------------------------------------------------------------------------
(* The Execution state machine: one execution object and its callers.      *)

Lists(n) == UNION {[1 .. k -> TransitionIDs] : k \in 0 .. n}

New ==
    /\ execution' = new
    /\ ret' = Returned("new", NoArgs, Ok(None))
    /\ before' = execution.transitions
    /\ UNCHANGED circuitVars

\* let execution = Execution::from(edition, list)?;  on an error the caller
\* keeps the execution it had.
From(edition, list) ==
    /\ LET result == from(edition, list)
       IN  /\ execution' = IF result.kind = "ok" THEN result.value ELSE execution
           /\ ret' = Returned("from", [NoArgs EXCEPT !.edition = edition, !.list = list],
                              result)
    /\ before' = execution.transitions
    /\ UNCHANGED circuitVars

Get(index) ==
    /\ ret' = Returned("get", [NoArgs EXCEPT !.index = index], get(execution, index))
    /\ before' = execution.transitions
    /\ UNCHANGED <<execution>>
    /\ UNCHANGED circuitVars

Peek(overflow_checks) ==
    /\ ret' = Returned("peek", NoArgs, peek(execution, overflow_checks))
    /\ before' = execution.transitions
    /\ UNCHANGED <<execution>>
    /\ UNCHANGED circuitVars

Push(id) ==
    /\ execution' = push(execution, id)
    /\ ret' = Returned("push", [NoArgs EXCEPT !.index = id], Ok(None))
    /\ before' = execution.transitions
    /\ UNCHANGED circuitVars

Pop ==
    /\ LET r == pop(execution)
       IN  /\ execution' = r.self
           /\ ret' = Returned("pop", NoArgs, r.result)
    /\ before' = execution.transitions
    /\ UNCHANGED circuitVars

NextExecution ==
    \/ New
    \/ \E edition \in {EDITION, EDITION + 1}, list \in Lists(MaxFromLen) : From(edition, list)
    \/ \E index \in (0 .. NumTransitionIDs) \cup {USIZE_MAX} : Get(index)
    \/ \E overflow_checks \in BOOLEAN : Peek(overflow_checks)
    \/ \E id \in TransitionIDs : Push(id)
    \/ Pop

SpecExecution == Init /\ [][NextExecution]_vars

---------------------------------------------------------------------------
(* Properties of the Execution container. *)

\* C9: every fallible Execution operation reports failure as a returned
\* error and never halts: from() on an empty list or a foreign edition, get()
\* at or beyond len(), peek() and pop() on an empty execution.
C9_FailuresAreErrors ==
    /\ ret.kind # "panic"
    /\ (ret.op = "from" /\ (ret.args.list = <<>> \/ ret.args.edition # EDITION))
          => ret.kind = "err"
    /\ (ret.op = "get" /\ ret.args.index >= Len(before)) => ret.kind = "err"
    /\ (ret.op \in {"peek", "pop"} /\ before = <<>>) => ret.kind = "err"

\* What push(t) is claimed to do, seen from the state right after it.
PushAppended ==
    LET t == ret.args.index
    IN  /\ execution.transitions = Append(before, t)
        /\ len(execution) = Len(before) + 1
        /\ \A overflow_checks \in BOOLEAN : peek(execution, overflow_checks) = Ok(t)
        /\ pop(execution).result = Ok(t)
        /\ pop(execution).self.transitions = before

\* C10 as stated: push(t) appends t as the last transition for every t, one
\* whose ID is already present included.
C10_Original == (ret.op = "push") => PushAppended

\* C10, amended: after any sequence of operations, push(t) of a transition
\* whose ID is not yet in the execution appends t as the last transition:
\* len() grows by one, peek() returns t, and an immediately following pop()
\* returns t and restores the transitions as they were before the push.
C10_PushOfNewIdAppends ==
    (ret.op = "push" /\ ret.args.index \notin Range(before)) => PushAppended

C10_Witness ==
    /\ ret.op = "push"
    /\ ret.args.index \notin Range(before)
    /\ Len(before) = 2
    /\ len(execution) = 3

=============================================================================
